---- MODULE Spec2Model ----
(***************************************************************************)
(* Model of toxygen's file transfers (src/src/file_transfers.py): one      *)
(* transfer object of any of the classes SendTransfer, SendFromBuffer,     *)
(* ReceiveTransfer, ReceiveToBuffer and ReceiveAvatar, the file at its     *)
(* path, the transport (tox) calls it makes and the progress events it     *)
(* emits.  Each method is one action; an exception raised by a method is   *)
(* recorded in last.result, with the assignments made before the raise     *)
(* kept, as Python keeps them.                                             *)
(***************************************************************************)
EXTENDS Integers, Sequences, FiniteSets, TLC

\* ------------------------------------------------------------------ bounds
MaxByte == 1        \* bytes are 0..MaxByte
MaxSrc == 2         \* longest source file / buffer
MaxAvatar == 1      \* longest avatar file found at the avatar path
MaxPos == 1         \* largest chunk position
MaxLen == 1         \* longest inbound chunk
MaxReq == 2         \* largest chunk size requested of an outbound transfer
MaxSize == 2        \* largest declared size of an ordinary inbound transfer
MaxDone == 3        \* cap of the _done counter
MaxWidePos == 2     \* inbound specification: largest chunk position
MaxWideLen == 2     \* inbound specification: longest chunk
MaxTotal == 3       \* ordered delivery: longest payload
MaxExtra == 1       \* well-behaved sequences: bytes asked beyond the end of the source

\* --------------------------------------------------------------- constants
TOX_FILE_TRANSFER_STATE == [RUNNING |-> 0, PAUSED |-> 1, CANCELED |-> 2, FINISHED |-> 3]

TOX_FILE_CONTROL == [RESUME |-> 0, PAUSE |-> 1, CANCEL |-> 2]

MAX_AVATAR_SIZE == 512 * 1024

RUNNING == TOX_FILE_TRANSFER_STATE.RUNNING
PAUSED == TOX_FILE_TRANSFER_STATE.PAUSED
CANCELED == TOX_FILE_TRANSFER_STATE.CANCELED
FINISHED == TOX_FILE_TRANSFER_STATE.FINISHED

Terminal == {CANCELED, FINISHED}

Controls == {TOX_FILE_CONTROL.RESUME, TOX_FILE_CONTROL.PAUSE, TOX_FILE_CONTROL.CANCEL}

\* ------------------------------------------------------------ input spaces
Byte == 0..MaxByte

SeqsUpTo(n) == UNION {[1..k -> Byte] : k \in 0..n}

Contents == SeqsUpTo(MaxSrc)

Chunks == SeqsUpTo(MaxLen)

Positions == 0..MaxPos

ChunkSizes == 0..MaxReq

AvatarContents == SeqsUpTo(MaxAvatar)

WidePositions == 0..MaxWidePos

WideChunks == SeqsUpTo(MaxWideLen)

Sizes == 0..MaxSize

AvatarSizes == Sizes \cup {MAX_AVATAR_SIZE, MAX_AVATAR_SIZE + 1}

None == "None"

\* write_chunk's data is None: the end of the stream
EndOfStream == <<-1>>

NoFile == [exists |-> FALSE, content |-> <<>>]

\* No write_chunk call is in progress
NotWriting == [step |-> "idle", position |-> 0, data |-> <<>>, offset |-> 0]

\* ------------------------------------------------------------------- state
VARIABLES
    kind,       \* class of the transfer object, None before it is constructed
    state,      \* self.state
    size,       \* self._size
    done,       \* self._done
    file,       \* self._file: "absent" (no attribute), "open" or "closed"
    disk,       \* the file at self._path: [exists, content]
    data,       \* self._data of the buffer transfers
    file_size,  \* self._file_size
    data_size,  \* self._data_size
    cancel_ok,  \* cancel() has run with the transport honoring the control
    last,       \* the last call: [op, position, arg, result]; a constructor's
                \* arg is what it found: [id, prior], the file id the transport
                \* reports and the file at the path when it was entered
    events,     \* progress events emitted by the last call
    controls,   \* tox.file_control calls of the last call: [control, ok]
    sent,       \* tox.file_send_chunk calls of the last call: [position, data]
    payload,    \* ordered delivery: the content the peer sends
    pending,    \* ordered delivery: chunks [position, length] not yet delivered
    writing,    \* stepwise write_chunk: [step, position, data, offset], the
                \* statement the call is at and the offset of the file object
    closing     \* stepwise cancelled(): the statement the call is at

vars == <<kind, state, size, done, file, disk, data, file_size, data_size, cancel_ok, last, events, controls, sent, payload, pending, writing, closing>>

\* ----------------------------------------------------------------- helpers
Max(a, b) == IF a >= b THEN a ELSE b

Min(a, b) == IF a <= b THEN a ELSE b

Zeros(n) == [i \in 1..n |-> 0]

\* Python's s[a:b] for 0 <= a, 0 <= b
Slice(s, a, b) == SubSeq(s, a + 1, Min(b, Len(s)))

\* Python's s[a:]
SliceFrom(s, a) == SubSeq(s, a + 1, Len(s))

\* Tox.hash: a collision-free digest of the content
Hash(c) == <<"hash", c>>

Call(op, position, arg, result) ==
    [op |-> op, position |-> position, arg |-> arg, result |-> result]

Event(st, num, den) == [state |-> st, num |-> num, den |-> den]


\* file.close(): an AttributeError where the object has no _file is raised by
\* the callers that do not test hasattr
close(f) == IF f = "absent" THEN f ELSE "closed"

\* os.remove(path)
remove(d) == NoFile

\* A write of bytes at offset through an open file object: the file system
\* fills a hole between the end of the file and offset with zero bytes.
FileWrite(content, offset, bytes) ==
    IF bytes = <<>> THEN content
    ELSE LET base == IF offset > Len(content)
                     THEN content \o Zeros(offset - Len(content))
                     ELSE content
         IN SubSeq(base, 1, offset) \o bytes \o SliceFrom(base, offset + Len(bytes))

\* FileRead without the seek: the read starts at the head of the file
FileRead_noseek(content, position, n) == Slice(content, 0, n)

\* file.seek(position); file.read(n)
FileRead(content, position, n) == Slice(content, position, position + n)

\* ------------------------------------------------------------ FileTransfer
\* do_send_control issuing the control without assigning the state
do_send_control_unassigned(st, dn, sz, control, ok) ==
    [state    |-> st,
     events   |-> IF ok THEN <<IF sz # 0 THEN Event(st, dn, sz) ELSE Event(st, 0, 1)>>
                        ELSE <<>>,
     controls |-> <<[control |-> control, ok |-> ok]>>]

\* do_send_control without the test of the transport's answer
do_send_control_unchecked(st, dn, sz, control, ok) ==
    [state    |-> control,
     events   |-> <<IF sz # 0 THEN Event(control, dn, sz)
                              ELSE Event(control, 0, 1)>>,
     controls |-> <<[control |-> control, ok |-> ok]>>]

\* send_control on a transfer of state st, _done dn and _size sz: the state,
\* the event and the transport call of a control the transport answered with
\* ok
do_send_control(st, dn, sz, control, ok) ==
    [state    |-> IF ok THEN control ELSE st,
     events   |-> IF ok
                  THEN <<IF sz # 0 THEN Event(control, dn, sz)
                                   ELSE Event(control, 0, 1)>>
                  ELSE <<>>,
     controls |-> <<[control |-> control, ok |-> ok]>>]

send_control(control) ==
    /\ UNCHANGED <<payload, pending, writing, closing>>
    /\ kind # None
    /\ \E ok \in BOOLEAN :
         LET r == do_send_control(state, done, size, control, ok)
         IN /\ state' = r.state
            /\ events' = r.events
            /\ controls' = r.controls
            /\ last' = Call("send_control", None, control, IF ok THEN "ok" ELSE "rejected")
    /\ sent' = <<>>
    /\ UNCHANGED <<kind, size, done, file, disk, data, file_size, data_size,
                   cancel_ok>>

\* Whether os.remove(path) deletes the file: it raises OSError where there
\* is no file, and may raise it where there is one (a file in use, a
\* directory that cannot be written)
Removals(d) == IF d.exists THEN BOOLEAN ELSE {FALSE}

\* ReceiveTransfer.cancel adds remove(self._path) to FileTransfer.cancel, as
\* its last statement: an OSError of remove leaves what cancel did before
removes_path == kind \in {"ReceiveTransfer", "ReceiveAvatar"}

cancel ==
    /\ UNCHANGED <<payload, pending, writing, closing>>
    /\ kind # None
    /\ \E ok \in BOOLEAN :
         LET r == do_send_control(state, done, size, TOX_FILE_CONTROL.CANCEL, ok)
         IN /\ state' = r.state
            /\ events' = r.events \o <<Event(r.state, 1, 1)>>
            /\ controls' = r.controls
            /\ cancel_ok' = (cancel_ok \/ ok)
    /\ file' = close(file)
    /\ IF removes_path
       THEN \E removed \in Removals(disk) :
              IF removed
              THEN /\ disk' = remove(disk)
                   /\ last' = Call("cancel", None, None, "ok")
              ELSE /\ disk' = disk
                   /\ last' = Call("cancel", None, None, "OSError")
       ELSE /\ disk' = disk
            /\ last' = Call("cancel", None, None, "ok")
    /\ sent' = <<>>
    /\ UNCHANGED <<kind, size, done, data, file_size, data_size>>

cancelled ==
    /\ UNCHANGED <<payload, pending, writing, closing>>
    /\ kind # None
    /\ file' = close(file)
    /\ events' = <<Event(TOX_FILE_CONTROL.CANCEL, 1, 1)>>
    /\ controls' = <<>>
    /\ sent' = <<>>
    /\ last' = Call("cancelled", None, None, "ok")
    /\ UNCHANGED <<kind, state, size, done, disk, data, file_size, data_size,
                   cancel_ok>>

\* ------------------------------------------------------------ SendTransfer
\* The common tail of a chunk call: self._done += n, then the event with
\* self._done / self._size, a float division that raises on a size of 0.
progress(op, position, arg, n) ==
    /\ done + n <= MaxDone
    /\ done' = done + n
    /\ IF size = 0
       THEN /\ events' = <<>>
            /\ last' = Call(op, position, arg, "ZeroDivisionError")
       ELSE /\ events' = <<Event(state, done + n, size)>>
            /\ last' = Call(op, position, arg, "ok")

\* The end-of-stream branch of a chunk call, after the close of the file
finish(op, position, arg) ==
    /\ state' = FINISHED
    /\ events' = <<Event(FINISHED, 1, 1)>>
    /\ last' = Call(op, position, arg, "ok")

\* A chunk call that raised before it changed anything
raised(op, position, arg, error) ==
    /\ last' = Call(op, position, arg, error)
    /\ events' = <<>>
    /\ sent' = <<>>
    /\ UNCHANGED <<state, done, file, disk, data, file_size, data_size>>

SendTransfer_send_chunk(position, n) ==
    /\ kind = "SendTransfer"
    /\ controls' = <<>>
    /\ UNCHANGED <<kind, size, cancel_ok>>
    /\ IF file = "absent"
       THEN raised("send_chunk", position, n, "AttributeError")
       ELSE IF n # 0
       THEN IF file = "closed"
            THEN raised("send_chunk", position, n, "ValueError")
            ELSE /\ sent' = <<[position |-> position,
                               data |-> FileRead(disk.content, position, n)]>>
                 /\ progress("send_chunk", position, n, n)
                 /\ UNCHANGED <<state, file, disk, data, file_size, data_size>>
       ELSE /\ file' = close(file)
            /\ finish("send_chunk", position, n)
            /\ sent' = <<>>
            /\ UNCHANGED <<done, disk, data, file_size, data_size>>

\* ---------------------------------------------------------- SendFromBuffer
SendFromBuffer_send_chunk(position, n) ==
    /\ kind = "SendFromBuffer"
    /\ controls' = <<>>
    /\ UNCHANGED <<kind, size, cancel_ok>>
    /\ IF n # 0
       THEN /\ sent' = <<[position |-> position,
                          data |-> Slice(data, position, position + n)]>>
            /\ progress("send_chunk", position, n, n)
            /\ UNCHANGED <<state, file, disk, data, file_size, data_size>>
       ELSE /\ finish("send_chunk", position, n)
            /\ sent' = <<>>
            /\ UNCHANGED <<done, file, disk, data, file_size, data_size>>

\* --------------------------------------------------------- ReceiveTransfer
\* (ReceiveTransfer_write_append is ReceiveTransfer_write without the seek to
\* position: the data goes to the end of the file.)
\* write_chunk's file operations on a chunk of data: the zero fill at the end
\* of the file where the tracked size is below position, then the data at
\* position.  (The chunk arrives as a list of byte values and is joined to a
\* string of the same bytes.)
ReceiveTransfer_write_append(content, tracked, position, d) ==
    LET padded == IF tracked < position
                  THEN FileWrite(content, Len(content), Zeros(position - tracked))
                  ELSE content
    IN FileWrite(padded, Len(padded), d)

ReceiveTransfer_write(content, tracked, position, d) ==
    LET padded == IF tracked < position
                  THEN FileWrite(content, Len(content), Zeros(position - tracked))
                  ELSE content
    IN FileWrite(padded, position, d)

\* The tracked size after a chunk of length l at position
grow(tracked, position, l) == IF position + l > tracked THEN position + l ELSE tracked

\* ReceiveAvatar inherits write_chunk
ReceiveTransfer_write_chunk(position, d) ==
    /\ kind \in {"ReceiveTransfer", "ReceiveAvatar"}
    /\ controls' = <<>>
    /\ sent' = <<>>
    /\ UNCHANGED <<kind, size, cancel_ok, data, data_size>>
    /\ IF d = EndOfStream
       THEN /\ file' = close(file)
            /\ finish("write_chunk", position, d)
            /\ UNCHANGED <<done, disk, file_size>>
       ELSE IF file = "closed"
       THEN /\ last' = Call("write_chunk", position, d, "ValueError")
            /\ events' = <<>>
            /\ UNCHANGED <<state, done, file, disk, file_size>>
       ELSE /\ disk' = [disk EXCEPT
                          !.content = ReceiveTransfer_write(disk.content, file_size, position, d)]
            /\ file_size' = grow(file_size, position, Len(d))
            /\ progress("write_chunk", position, d, Len(d))
            /\ UNCHANGED <<state, file>>

\* --------------------------------------------------------- ReceiveToBuffer
\* ReceiveToBuffer_write without the tail of the buffer behind the chunk
ReceiveToBuffer_write_truncating(buf, tracked, position, d) ==
    LET padded == IF tracked < position
                  THEN buf \o Zeros(position - tracked)
                  ELSE buf
    IN Slice(padded, 0, position) \o d

\* self._data after a chunk of data: the zero fill, then the slices around d
ReceiveToBuffer_write(buf, tracked, position, d) ==
    LET padded == IF tracked < position
                  THEN buf \o Zeros(position - tracked)
                  ELSE buf
    IN Slice(padded, 0, position) \o d \o SliceFrom(padded, position + Len(d))

ReceiveToBuffer_write_chunk(position, d) ==
    /\ kind = "ReceiveToBuffer"
    /\ controls' = <<>>
    /\ sent' = <<>>
    /\ UNCHANGED <<kind, size, cancel_ok, file, disk, file_size>>
    /\ IF d = EndOfStream
       THEN /\ finish("write_chunk", position, d)
            /\ UNCHANGED <<done, data, data_size>>
       ELSE /\ data' = ReceiveToBuffer_write(data, data_size, position, d)
            /\ data_size' = grow(data_size, position, Len(d))
            /\ progress("write_chunk", position, d, Len(d))
            /\ UNCHANGED state

\* ------------------------------------------------------------ construction
\* FileTransfer.__init__ and what every constructor leaves as it is
FileTransfer_init(k, sz, found) ==
    /\ kind = None
    /\ kind' = k
    /\ size' = sz
    /\ done' = 0
    /\ sent' = <<>>
    /\ last' = Call(k, None, found, "ok")
    /\ UNCHANGED cancel_ok

\* SendTransfer(path): the file at path is the source
SendTransfer_init ==
    /\ disk.exists
    /\ FileTransfer_init("SendTransfer", Len(disk.content), None)
    /\ state' = RUNNING
    /\ file' = "open"
    /\ events' = <<>>
    /\ controls' = <<>>
    /\ UNCHANGED <<disk, data, file_size, data_size>>

\* SendTransfer(None): no file is opened, the size is 0.  (A transfer without
\* a path is followed from the state with no file at the path.)
SendTransfer_init_None ==
    /\ UNCHANGED <<payload, pending, writing, closing>>
    /\ disk = NoFile
    /\ FileTransfer_init("SendTransfer", 0, None)
    /\ state' = RUNNING
    /\ file' = "absent"
    /\ events' = <<>>
    /\ controls' = <<>>
    /\ UNCHANGED <<disk, data, file_size, data_size>>

SendFromBuffer_init(d) ==
    /\ disk = NoFile
    /\ FileTransfer_init("SendFromBuffer", Len(d), None)
    /\ state' = RUNNING
    /\ data' = d
    /\ events' = <<>>
    /\ controls' = <<>>
    /\ UNCHANGED <<file, disk, file_size, data_size>>

\* open(self._path, 'wb') and truncate(0): the file exists and is empty
open_wb(d) == [exists |-> TRUE, content |-> <<>>]

ReceiveTransfer_init(sz) ==
    /\ FileTransfer_init("ReceiveTransfer", sz, None)
    /\ state' = RUNNING
    /\ disk' = open_wb(disk)
    /\ file' = "open"
    /\ file_size' = 0
    /\ events' = <<>>
    /\ controls' = <<>>
    /\ UNCHANGED <<data, data_size>>

ReceiveToBuffer_init(sz) ==
    /\ disk = NoFile
    /\ FileTransfer_init("ReceiveToBuffer", sz, None)
    /\ state' = RUNNING
    /\ data' = <<>>
    /\ data_size' = 0
    /\ events' = <<>>
    /\ controls' = <<>>
    /\ UNCHANGED <<file, disk, file_size>>

\* ----------------------------------------------------------- ReceiveAvatar
\* The branch ReceiveAvatar.__init__ takes, decided after ReceiveTransfer's
\* constructor has opened the file at the path: opened is the file then, id
\* the file id the transport reports.
avatar_branch(sz, opened, id) ==
    IF sz > MAX_AVATAR_SIZE THEN "oversized"
    ELSE IF opened.exists
         THEN IF sz = 0 THEN "removal"
              ELSE IF id = Hash(opened.content) THEN "duplicate"
              ELSE "resume"
    ELSE "resume"

\* A constructor that raises returns no object: the fields are the ones the
\* statements before the exception assigned
init_raised(k, sz, found, result) ==
    /\ kind = None
    /\ kind' = None
    /\ size' = sz
    /\ done' = 0
    /\ sent' = <<>>
    /\ last' = Call(k, None, found, result)
    /\ UNCHANGED cancel_ok

ReceiveAvatar_init(sz, id) ==
    /\ UNCHANGED <<payload, pending, writing, closing>>
    /\ disk.exists => disk.content \in AvatarContents
    /\ file_size' = 0
    /\ UNCHANGED <<data, data_size>>
    /\ \E ok \in BOOLEAN :
         LET opened == open_wb(disk)
             branch == avatar_branch(sz, opened, id)
             control == IF branch = "resume" THEN TOX_FILE_CONTROL.RESUME
                                             ELSE TOX_FILE_CONTROL.CANCEL
             r == do_send_control(RUNNING, 0, sz, control, ok)
             found == [id |-> id, prior |-> disk]
         IN /\ events' = r.events
            /\ controls' = r.controls
            /\ state' = IF branch \in {"removal", "duplicate"} THEN CANCELED ELSE r.state
            /\ file' = IF branch = "removal" THEN "closed" ELSE "open"
            /\ IF branch = "removal"
               THEN \E removed \in Removals(opened) :
                      IF removed
                      THEN /\ disk' = remove(opened)
                           /\ FileTransfer_init("ReceiveAvatar", sz, found)
                      ELSE /\ disk' = opened
                           /\ init_raised("ReceiveAvatar", sz, found, "OSError")
               ELSE /\ disk' = opened
                    /\ FileTransfer_init("ReceiveAvatar", sz, found)

\* ----------------------------------------------------------- specification
Init ==
    /\ kind = None
    /\ state = RUNNING
    /\ size = 0
    /\ done = 0
    /\ file = "absent"
    /\ disk \in {NoFile} \cup {[exists |-> TRUE, content |-> c] : c \in Contents}
    /\ data = <<>>
    /\ file_size = 0
    /\ data_size = 0
    /\ cancel_ok = FALSE
    /\ last = Call("None", None, None, "ok")
    /\ events = <<>>
    /\ controls = <<>>
    /\ sent = <<>>
    /\ payload = <<>>
    /\ pending = {}
    /\ writing = NotWriting
    /\ closing = "idle"

\* Every constructor and method, with any input
Next ==
    \/ SendTransfer_init /\ UNCHANGED <<payload, pending, writing, closing>>
    \/ SendTransfer_init_None
    \/ \E d \in Contents : SendFromBuffer_init(d) /\ UNCHANGED <<payload, pending, writing, closing>>
    \/ \E sz \in Sizes : ReceiveTransfer_init(sz) /\ UNCHANGED <<payload, pending, writing, closing>>
    \/ \E sz \in Sizes : ReceiveToBuffer_init(sz) /\ UNCHANGED <<payload, pending, writing, closing>>
    \/ \E sz \in AvatarSizes, c \in AvatarContents : ReceiveAvatar_init(sz, Hash(c))
    \/ \E control \in Controls : send_control(control)
    \/ cancel
    \/ cancelled
    \/ \E position \in Positions, n \in ChunkSizes :
         SendTransfer_send_chunk(position, n) /\ UNCHANGED <<payload, pending, writing, closing>>
    \/ \E position \in Positions, n \in ChunkSizes :
         SendFromBuffer_send_chunk(position, n) /\ UNCHANGED <<payload, pending, writing, closing>>
    \/ \E position \in Positions, d \in Chunks \cup {EndOfStream} :
         ReceiveTransfer_write_chunk(position, d) /\ UNCHANGED <<payload, pending, writing, closing>>
    \/ \E position \in Positions, d \in Chunks \cup {EndOfStream} :
         ReceiveToBuffer_write_chunk(position, d) /\ UNCHANGED <<payload, pending, writing, closing>>

Spec == Init /\ [][Next]_vars

\* ------------------------------------------------- inbound specification
\* The inbound consumers alone, with chunks at wider positions and of greater
\* length than under Spec.
NextInbound ==
    \/ \E sz \in Sizes : ReceiveTransfer_init(sz) /\ UNCHANGED <<payload, pending, writing, closing>>
    \/ \E sz \in Sizes : ReceiveToBuffer_init(sz) /\ UNCHANGED <<payload, pending, writing, closing>>
    \/ \E position \in WidePositions, d \in WideChunks \cup {EndOfStream} :
         ReceiveTransfer_write_chunk(position, d) /\ UNCHANGED <<payload, pending, writing, closing>>
    \/ \E position \in WidePositions, d \in WideChunks \cup {EndOfStream} :
         ReceiveToBuffer_write_chunk(position, d) /\ UNCHANGED <<payload, pending, writing, closing>>

SpecInbound == Init /\ [][NextInbound]_vars

\* ------------------------------------------------ ordered delivery
\* The peer's content, cut into chunks at the places in cuts
Partition(n, cuts) ==
    LET bounds == {0, n} \cup cuts
    IN {[position |-> a,
         length |-> (CHOOSE b \in bounds : b > a /\ \A x \in bounds : x > a => b <= x) - a] :
           a \in bounds \ {n}}

InitDeliver ==
    /\ Init
    /\ disk = NoFile

\* The transfer is announced with the size of the content and a way to cut it
Announce ==
    /\ \E c \in SeqsUpTo(MaxTotal) \ {<<>>}, cuts \in SUBSET (1..MaxTotal) :
         /\ \A x \in cuts : x < Len(c)
         /\ \/ ReceiveTransfer_init(Len(c))
            \/ ReceiveToBuffer_init(Len(c))
         /\ payload' = c
         /\ pending' = Partition(Len(c), cuts)
         /\ UNCHANGED <<writing, closing>>

\* Any chunk not yet delivered is delivered next
Deliver ==
    \E c \in pending :
      /\ pending' = pending \ {c}
      /\ UNCHANGED <<payload, writing, closing>>
      /\ LET d == Slice(payload, c.position, c.position + c.length)
         IN \/ ReceiveTransfer_write_chunk(c.position, d)
            \/ ReceiveToBuffer_write_chunk(c.position, d)

NextDeliver == Announce \/ Deliver

SpecDeliver == InitDeliver /\ [][NextDeliver]_vars

\* ------------------------------------------------ well-behaved sequences
\* One transfer, outbound or inbound, of a content cut into chunks that do
\* not overlap and are each requested or delivered once, in any order, with
\* Pause and Resume controls in between and the end of the stream after the
\* last chunk.  The request that reaches the end of an outbound source may
\* ask for up to MaxExtra bytes more than the source has left.
Overshoot(chunks, n, extra) ==
    {[position |-> c.position,
      length |-> IF c.position + c.length = n THEN c.length + extra ELSE c.length] :
        c \in chunks}

Offer ==
    \E c \in SeqsUpTo(MaxTotal), cuts \in SUBSET (1..MaxTotal), extra \in 0..MaxExtra :
      /\ \A x \in cuts : x < Len(c)
      /\ payload' = c
      /\ UNCHANGED <<writing, closing>>
      /\ \/ /\ disk.exists /\ disk.content = c
            /\ SendTransfer_init
            /\ pending' = Overshoot(Partition(Len(c), cuts), Len(c), extra)
         \/ /\ SendFromBuffer_init(c)
            /\ pending' = Overshoot(Partition(Len(c), cuts), Len(c), extra)
         \/ /\ extra = 0
            /\ ReceiveTransfer_init(Len(c))
            /\ pending' = Partition(Len(c), cuts)
         \/ /\ extra = 0
            /\ ReceiveToBuffer_init(Len(c))
            /\ pending' = Partition(Len(c), cuts)

\* Any chunk not yet transferred is requested or delivered next
TransferChunk ==
    \E c \in pending :
      /\ state # FINISHED
      /\ pending' = pending \ {c}
      /\ UNCHANGED <<payload, writing, closing>>
      /\ \/ SendTransfer_send_chunk(c.position, c.length)
         \/ SendFromBuffer_send_chunk(c.position, c.length)
         \/ ReceiveTransfer_write_chunk(c.position,
                Slice(payload, c.position, c.position + c.length))
         \/ ReceiveToBuffer_write_chunk(c.position,
                Slice(payload, c.position, c.position + c.length))

PauseOrResume ==
    /\ state # FINISHED
    /\ \E control \in {TOX_FILE_CONTROL.PAUSE, TOX_FILE_CONTROL.RESUME} :
         send_control(control)

\* The end of the stream, once every chunk was transferred
Complete ==
    /\ pending = {}
    /\ state # FINISHED
    /\ UNCHANGED <<payload, pending, writing, closing>>
    /\ \/ SendTransfer_send_chunk(Len(payload), 0)
       \/ SendFromBuffer_send_chunk(Len(payload), 0)
       \/ ReceiveTransfer_write_chunk(Len(payload), EndOfStream)
       \/ ReceiveToBuffer_write_chunk(Len(payload), EndOfStream)

NextProgress == Offer \/ TransferChunk \/ PauseOrResume \/ Complete

SpecProgress == Init /\ [][NextProgress]_vars

\* ------------------------------------------- cancelled() against a write
\* write_chunk(position, data) and cancelled() on one ReceiveTransfer, one
\* statement at a time, the two calls running in different threads: sleep
\* holds the thread of cancelled() only, and nothing orders the close after
\* the statements of a write that is under way.

\* A method of a file object raises ValueError on a closed file
usable(f) == f = "open"

\* The statements of write_chunk that act on the file object
FileSteps == {"seek_end", "write_zeros", "seek", "write", "flush"}

\* write_chunk is entered with data, while no cancelled() has come
write_chunk_enter(position, d) ==
    /\ kind \in {"ReceiveTransfer", "ReceiveAvatar"}
    /\ writing.step = "idle"
    /\ closing = "idle"
    /\ writing' = [step |-> IF file_size < position THEN "seek_end" ELSE "seek",
                   position |-> position, data |-> d, offset |-> writing.offset]
    /\ UNCHANGED <<kind, state, size, done, file, disk, data, file_size, data_size,
                   cancel_ok, last, events, controls, sent, payload, pending, closing>>

\* One statement on the file object: on a usable file it moves the offset to
\* offset and leaves content in the file; on a closed one it raises, and the
\* call is over
file_step(next, offset, content) ==
    /\ IF usable(file)
       THEN /\ writing' = [writing EXCEPT !.step = next, !.offset = offset]
            /\ disk' = [disk EXCEPT !.content = content]
            /\ UNCHANGED <<last, events, controls, sent>>
       ELSE /\ writing' = [NotWriting EXCEPT !.offset = writing.offset]
            /\ last' = Call("write_chunk", writing.position, writing.data, "ValueError")
            /\ events' = <<>>
            /\ controls' = <<>>
            /\ sent' = <<>>
            /\ UNCHANGED disk
    /\ UNCHANGED <<kind, state, size, done, file, data, file_size, data_size,
                   cancel_ok, payload, pending, closing>>

\* self._file.seek(0, 2)
write_chunk_seek_end ==
    /\ writing.step = "seek_end"
    /\ file_step("write_zeros", Len(disk.content), disk.content)

\* self._file.write('\0' * (position - self._file_size))
write_chunk_write_zeros ==
    /\ writing.step = "write_zeros"
    /\ LET zeros == Zeros(writing.position - file_size)
       IN file_step("seek", writing.offset + Len(zeros),
                    FileWrite(disk.content, writing.offset, zeros))

\* self._file.seek(position)
write_chunk_seek ==
    /\ writing.step = "seek"
    /\ file_step("write", writing.position, disk.content)

\* self._file.write(data): the bytes are in the file at the latest when the
\* file is flushed or closed; they are put there at once
write_chunk_write ==
    /\ writing.step = "write"
    /\ file_step("flush", writing.offset + Len(writing.data),
                 FileWrite(disk.content, writing.offset, writing.data))

\* self._file.flush()
write_chunk_flush ==
    /\ writing.step = "flush"
    /\ file_step("count", writing.offset, disk.content)

\* The tracked size, _done and the event: no statement on the file object
write_chunk_count ==
    /\ writing.step = "count"
    /\ writing' = [NotWriting EXCEPT !.offset = writing.offset]
    /\ file_size' = grow(file_size, writing.position, Len(writing.data))
    /\ progress("write_chunk", writing.position, writing.data, Len(writing.data))
    /\ controls' = <<>>
    /\ sent' = <<>>
    /\ UNCHANGED <<kind, state, size, file, disk, data, data_size, cancel_ok,
                   payload, pending, closing>>

\* cancelled() is entered: hasattr(self, '_file') holds, the thread sleeps
cancelled_sleep ==
    /\ kind \in {"ReceiveTransfer", "ReceiveAvatar"}
    /\ closing = "idle"
    /\ closing' = "close"
    /\ UNCHANGED <<kind, state, size, done, file, disk, data, file_size, data_size,
                   cancel_ok, last, events, controls, sent, payload, pending, writing>>

\* The sleep is over: self._file.close()
cancelled_close ==
    /\ closing = "close"
    /\ closing' = "emit"
    /\ file' = close(file)
    /\ UNCHANGED <<kind, state, size, done, disk, data, file_size, data_size,
                   cancel_ok, last, events, controls, sent, payload, pending, writing>>

\* The signal of the cancellation
cancelled_emit ==
    /\ closing = "emit"
    /\ closing' = "done"
    /\ events' = <<Event(TOX_FILE_CONTROL.CANCEL, 1, 1)>>
    /\ controls' = <<>>
    /\ sent' = <<>>
    /\ last' = Call("cancelled", None, None, "ok")
    /\ UNCHANGED <<kind, state, size, done, file, disk, data, file_size, data_size,
                   cancel_ok, payload, pending, writing>>

NextRace ==
    \/ \E sz \in Sizes :
         ReceiveTransfer_init(sz) /\ UNCHANGED <<payload, pending, writing, closing>>
    \/ \E position \in Positions, d \in Chunks : write_chunk_enter(position, d)
    \/ write_chunk_seek_end
    \/ write_chunk_write_zeros
    \/ write_chunk_seek
    \/ write_chunk_write
    \/ write_chunk_flush
    \/ write_chunk_count
    \/ cancelled_sleep
    \/ cancelled_close
    \/ cancelled_emit

SpecRace == Init /\ [][NextRace]_vars

\* ------------------------------------------------------------------ claims
\* The state that matches a control signal
Matching(control) ==
    IF control = TOX_FILE_CONTROL.PAUSE THEN PAUSED
    ELSE IF control = TOX_FILE_CONTROL.RESUME THEN RUNNING
    ELSE CANCELED

\* C1: a send_control call the transport honors sets the state to the one
\* matching the signal and emits exactly one progress event; a call the
\* transport rejects leaves state, _done and the file handle as they were and
\* emits no event.
C1_SendControlFollowsTransport ==
    [][last'.op = "send_control" =>
         /\ Len(controls') = 1
         /\ controls'[1].control = last'.arg
         /\ IF controls'[1].ok
            THEN /\ state' = Matching(last'.arg)
                 /\ Len(events') = 1
                 /\ events'[1].state = state'
            ELSE /\ state' = state
                 /\ done' = done
                 /\ file' = file
                 /\ events' = <<>>]_vars

\* C1 witness: a Pause the transport honored has paused a running transfer
C1_Witness ==
    /\ last.op = "send_control"
    /\ last.arg = TOX_FILE_CONTROL.PAUSE
    /\ controls = <<[control |-> TOX_FILE_CONTROL.PAUSE, ok |-> TRUE]>>
    /\ state = PAUSED
    /\ Len(events) = 1

\* C2: once the state is Finished or Canceled, no operation changes it.
C2_TerminalAbsorbing ==
    [][(kind # None /\ state \in Terminal) => state' = state]_vars

\* The destination of an inbound transfer, the source of an outbound one
Content == IF kind \in {"SendFromBuffer", "ReceiveToBuffer"} THEN data ELSE disk.content

\* C3: after a cancel() the transport honored, every chunk call with data
\* fails and leaves _done and the content as they were; the file handle is
\* closed and the path of an inbound file transfer is removed.
C3_CancelIsTerminal ==
    /\ [][(cancel_ok /\ last'.op \in {"write_chunk", "send_chunk"}
             /\ (last'.op = "write_chunk" => last'.arg # EndOfStream)
             /\ (last'.op = "send_chunk" => last'.arg # 0)) =>
            /\ last'.result # "ok"
            /\ done' = done
            /\ Content' = Content]_vars
    /\ [](cancel_ok => /\ file # "open"
                       /\ removes_path => ~disk.exists)

\* C4: send_chunk(position, 0) on a transfer that owns its source, in a state
\* that is not terminal, sets the state to Finished and emits (Finished, 1.0);
\* the same call on a Finished transfer is rejected and emits nothing.
C4_FinishOnce ==
    [][(last'.op = "send_chunk" /\ last'.arg = 0 /\ file # "absent") =>
         /\ state \notin Terminal =>
              /\ state' = FINISHED
              /\ events' = <<Event(FINISHED, 1, 1)>>
         /\ state = FINISHED =>
              /\ last'.result # "ok"
              /\ events' = <<>>]_vars

\* The tracked logical length of an inbound destination
Tracked == IF kind = "ReceiveToBuffer" THEN data_size ELSE file_size

\* The destination after a chunk d at position, byte by byte: the bytes of d
\* in [position, position + Len(d)), the previous bytes elsewhere, and zero
\* in the gap above the previous length
Reference(prev, tracked, position, d) ==
    [i \in 1..Max(tracked, position + Len(d)) |->
        IF i > position /\ i <= position + Len(d) THEN d[i - position]
        ELSE IF i <= Len(prev) THEN prev[i]
        ELSE 0]

\* C5: after every write_chunk(position, data) on an inbound consumer whose
\* destination is open, at any position, the destination equals the reference
\* content, and the tracked length is max(previous length, position +
\* len(data)) and is the real length of the destination.
C5_WriteMatchesReference ==
    [][(last'.op = "write_chunk" /\ last'.arg # EndOfStream /\ file # "closed") =>
         /\ Content' = Reference(Content, Tracked, last'.position, last'.arg)
         /\ Tracked' = Max(Tracked, last'.position + Len(last'.arg))
         /\ Tracked' = Len(Content')]_vars

\* C5 witness: a chunk written at position 0 below two bytes that an earlier
\* chunk at position 2 left zero-filled, with the later bytes kept
C5_Witness ==
    /\ kind = "ReceiveTransfer"
    /\ last.op = "write_chunk"
    /\ last.position = 0
    /\ last.arg = <<1>>
    /\ last.result = "ok"
    /\ disk.content = <<1, 0, 1, 1>>
    /\ file_size = 4

\* C6: when every chunk of a partition of the content has been delivered
\* once, in whatever order, the destination is the content.
C6_OrderIndependent ==
    (kind # None /\ pending = {}) => Content = payload

\* C6 witness: a content of three bytes is complete in a file destination,
\* and the chunk delivered last was the one at position 0
C6_Witness ==
    /\ kind = "ReceiveTransfer"
    /\ pending = {}
    /\ Len(payload) = 3
    /\ last.op = "write_chunk"
    /\ last.position = 0
    /\ Len(last.arg) = 1
    /\ disk.content = payload

\* The bytes of src in [position, min(position + n, Len(src)))
SourceRange(src, position, n) ==
    [i \in 1..(Min(position + n, Len(src)) - position) |-> src[position + i]]

\* C7: a send_chunk(position, max_size) with max_size > 0 that reaches the
\* transport forwards, at position, exactly the bytes of the source from
\* position up to max_size of them, fewer only at the end of the source; a
\* call that raises on its file forwards nothing.
C7_ChunkIsSourceSlice ==
    (last.op = "send_chunk" /\ last.arg > 0) =>
       IF last.result \in {"ValueError", "AttributeError"}
       THEN sent = <<>>
       ELSE /\ Len(sent) = 1
            /\ sent[1].position = last.position
            /\ sent[1].data = SourceRange(Content, last.position, last.arg)
            /\ Len(sent[1].data) <= last.arg
            /\ Len(sent[1].data) < last.arg =>
                 last.position + Len(sent[1].data) >= Len(Content)

\* C7 witness: two bytes asked at position 1 of a file of two bytes: one byte
\* is forwarded
C7_Witness ==
    /\ kind = "SendTransfer"
    /\ last.op = "send_chunk"
    /\ last.position = 1
    /\ last.arg = 2
    /\ disk.content = <<0, 1>>
    /\ sent = <<[position |-> 1, data |-> <<1>>]>>

\* The advertised file id is the hash of a content of the declared size
OfDeclaredSize(id) == \E c \in AvatarContents : Len(c) = size /\ id = Hash(c)

\* C8: a ReceiveAvatar of a size in 1..512 KiB, created where an avatar file
\* of content C exists, is canceled where the advertised file id is hash(C)
\* and resumed, Running and open for chunks, where it is the hash of another
\* content (of the declared size).
C8_AvatarDeduplication ==
    (last.op = "ReceiveAvatar" /\ size > 0 /\ size <= MAX_AVATAR_SIZE
       /\ last.arg.prior.exists /\ OfDeclaredSize(last.arg.id)) =>
       /\ Len(controls) = 1
       /\ IF last.arg.id = Hash(last.arg.prior.content)
          THEN /\ controls[1].control = TOX_FILE_CONTROL.CANCEL
               /\ state = CANCELED
          ELSE /\ controls[1].control = TOX_FILE_CONTROL.RESUME
               /\ state = RUNNING
               /\ file = "open"

\* C9: a ReceiveAvatar of a size above 512 KiB has issued a cancel, accepts no
\* chunk write and has left no file at a path where there was none.
C9_OversizedRejected ==
    (last.op = "ReceiveAvatar" /\ size > MAX_AVATAR_SIZE) =>
       /\ Len(controls) = 1
       /\ controls[1].control = TOX_FILE_CONTROL.CANCEL
       /\ file # "open"
       /\ ~last.arg.prior.exists => ~disk.exists

\* C10: a ReceiveAvatar of a size of at most 512 KiB, created where no avatar
\* file existed, has issued a Resume and no Cancel, is Running, and its
\* destination file is there.
C10_NoPriorProceeds ==
    (last.op = "ReceiveAvatar" /\ size <= MAX_AVATAR_SIZE /\ ~last.arg.prior.exists) =>
       /\ Len(controls) = 1
       /\ controls[1].control = TOX_FILE_CONTROL.RESUME
       /\ state = RUNNING
       /\ disk.exists

\* C11: a cancel() whose Cancel the transport rejects leaves the transfer as
\* it was: the state, the file handle and the file at the path are unchanged,
\* so chunk calls still succeed.
C11_RejectedCancelKeepsTransfer ==
    [][(last'.op = "cancel" /\ controls' = <<[control |-> TOX_FILE_CONTROL.CANCEL,
                                              ok |-> FALSE]>>) =>
         /\ state' = state
         /\ file' = file
         /\ disk' = disk]_vars

\* C12: the fraction of every progress event is within [0, 1]: the bytes
\* counted never exceed the total size, also where the last request of an
\* outbound transfer asks for more bytes than the source has left.
C12_FractionInUnitInterval ==
    \A i \in 1..Len(events) :
        /\ events[i].den > 0
        /\ 0 <= events[i].num
        /\ events[i].num <= events[i].den

\* C14: every send_chunk(position, max_size) with max_size > 0 that forwards
\* a chunk adds to _done the number of bytes it forwarded, not max_size.
C14_DoneCountsBytesForwarded ==
    [][(last'.op = "send_chunk" /\ last'.arg > 0 /\ Len(sent') = 1) =>
         done' = done + Len(sent'[1].data)]_vars

\* C15: on a transfer of total size 0 no operation raises a division by zero:
\* send_chunk with max_size > 0, write_chunk with data and send_control all
\* complete, and the ones that report progress emit an event.
C15_NoDivisionByZero ==
    (kind # None /\ size = 0) =>
       /\ last.result # "ZeroDivisionError"
       /\ (last.result = "ok" /\ last.op \in {"send_chunk", "write_chunk", "send_control"}) =>
            Len(events) = 1

\* The transfers that own a file handle
FileBacked == kind \in {"SendTransfer", "ReceiveTransfer", "ReceiveAvatar"} /\ file # "absent"

\* C16: a file-backed transfer whose state is Finished or Canceled has its
\* file handle closed.
C16_TerminalReleasesHandle ==
    (FileBacked /\ state \in Terminal) => file = "closed"

\* C19: a transfer whose file handle is closed is Finished or Canceled: a
\* Running or Paused transfer always has a usable handle, also after
\* cancelled() and after a cancel() the transport rejected.
C19_ClosedHandleIsTerminal ==
    (kind # None /\ file = "closed") => state \in Terminal

\* The advertised file id is the hash of the avatar stored at the path
DuplicateOffer(id, prior) == prior.exists /\ id = Hash(prior.content)

\* C20: a ReceiveAvatar created where an avatar file of content C exists, and
\* rejected as oversized or canceled as a duplicate of C, leaves the file at
\* the path there with content C.
C20_RejectedAvatarKeepsStored ==
    (last.op = "ReceiveAvatar" /\ last.arg.prior.exists
       /\ \/ size > MAX_AVATAR_SIZE
          \/ size > 0 /\ DuplicateOffer(last.arg.id, last.arg.prior)) =>
       disk = last.arg.prior

\* C17: where the transport honored the Cancel and the delete of the inbound
\* destination file failed, in cancel() of a ReceiveTransfer and in the
\* zero-size branch of ReceiveAvatar's constructor, the state is Canceled.
C17_DeleteFailureKeepsCanceled ==
    (/\ last.op \in {"cancel", "ReceiveAvatar"}
     /\ last.result = "OSError"
     /\ controls = <<[control |-> TOX_FILE_CONTROL.CANCEL, ok |-> TRUE]>>) =>
       state = CANCELED

\* C17 witness: cancel() on a ReceiveTransfer with chunks written, the Cancel
\* honored, and the file still at the path after the delete failed
C17_Witness ==
    /\ kind = "ReceiveTransfer"
    /\ last.op = "cancel"
    /\ last.result = "OSError"
    /\ controls = <<[control |-> TOX_FILE_CONTROL.CANCEL, ok |-> TRUE]>>
    /\ disk.exists
    /\ disk.content # <<>>
    /\ state = CANCELED
    /\ file = "closed"

\* The fraction of event a is at most the fraction of event b
FractionLeq(a, b) == a.num * b.den <= b.num * a.den

\* C13: over a sequence of chunks that do not overlap, with honored Pause and
\* Resume controls in between, the fraction of each progress event is at
\* least the fraction of the event before it, and the event of the state
\* Finished carries exactly 1.
C13_ProgressMonotone ==
    [][events' # <<>> =>
         /\ events # <<>> => FractionLeq(events[Len(events)], events'[1])
         /\ \A i \in 1..Len(events') :
              events'[i].state = FINISHED => events'[i].num = events'[i].den]_vars

\* C18: with cancelled() coming while a write_chunk is under way, the write
\* is over before the file is closed: no seek, write or flush of the call
\* runs on a closed file.
C18_NoStepOnClosedHandle ==
    [][writing.step \in FileSteps => file = "open"]_writing

====
